---- MODULE Spec2Model ----
(***************************************************************************)
(* Model of the netdisk search plugin (src/main.py, NetdiskSearchPlugin):  *)
(* the command router run(), the config handler, the permission guard,     *)
(* the rate limiter, the search-command parser and the result formatter.   *)
(*                                                                         *)
(* Strings.  A message is the sequence of its whitespace-separated tokens, *)
(* which is what strip()/split() see.  The command prefixes contain no     *)
(* whitespace, so startswith() looks at the first token only and replace() *)
(* acts inside each token.  Non-ASCII literals of the source are written   *)
(* in pinyin:  /sousuo = the Chinese search prefix, /wangpanbangzhu = the  *)
(* Chinese help prefix, /wangpanpeizhi = the Chinese config prefix,        *)
(* zh_yizhou zh_yiyue zh_sanyue zh_yinian = the four Chinese time words,   *)
(* zh_baidu zh_ali zh_kuake zh_xunlei = the four Chinese type words,       *)
(* zh_jingque zh_zhunque = the two Chinese words for exact, and sup2 = the *)
(* one-character string SUPERSCRIPT TWO (isdigit() is true, int() raises). *)
(***************************************************************************)
EXTENDS Integers, Sequences, FiniteSets, TLC

VARIABLES
    config,             \* self.config: the dict loaded by _load_config
    token,              \* self.token
    max_results,        \* self.max_results
    request_interval,   \* self.request_interval
    saved,              \* contents of config.json
    user_last_request,  \* self.user_last_request: key -> timestamp
    search_count,       \* self.search_count
    now,                \* the wall clock read by datetime.now()
    reply,              \* what the last run() returned
    called,             \* whether the last run() issued the HTTP POST
    ev,                 \* the event the last run() was called with
    cmd,                \* the message last given to _handle_search
    params,             \* what _parse_search_command returned for cmd
    result              \* what _handle_search returned for cmd

vars == <<config, token, max_results, request_interval, saved, user_last_request,
          search_count, now, reply, called, ev, cmd, params, result>>

-----------------------------------------------------------------------------
(* Bounds of the model *)

\* number of tokens after the query in the messages given to the parser
MaxTokens == 3
\* the clock runs over 0..MaxTime
MaxTime == 3
\* search_count is followed up to MaxCount
MaxCount == 1

-----------------------------------------------------------------------------
(* Python string operations on the tokens of the model *)

\* str(n) for the integers the model prints
DecimalStr ==
    << "0", "1", "2", "3", "4", "5", "6", "7", "8", "9", "10", "11",
       "12", "13", "14", "15", "16", "17", "18", "19", "20", "21", "22", "23",
       "24", "25", "26", "27", "28", "29", "30", "31", "32", "33", "34", "35",
       "36", "37", "38", "39", "40", "41", "42", "43", "44", "45", "46", "47",
       "48", "49", "50", "51", "52", "53", "54", "55", "56", "57", "58", "59",
       "60", "61" >>

IntToStr(n) == DecimalStr[n + 1]

\* int(s): the strings of the model that int() accepts, with their values
IntTable ==
    { <<DecimalStr[n + 1], n>> : n \in 0..(Len(DecimalStr) - 1) }
    \cup { <<"007", 7>>, <<"100", 100>>, <<"-1", 0 - 1>> }

IntRaises(s) == ~ \E p \in IntTable : p[1] = s

IntOf(s) == (CHOOSE p \in IntTable : p[1] = s)[2]

\* s.isdigit(): every character is a digit; true of sup2, false of "-1"
IsDigit(s) ==
    \/ \E p \in IntTable : p[1] = s /\ p[2] >= 0
    \/ s = "sup2"

\* the cased words of the model: their spellings, lower() and upper(); on
\* every other token of the model (digits, pinyin stand-ins for Chinese
\* words, prefixes) lower() and upper() change nothing
CaseTable ==
    { <<{"WEEK", "week"}, "week", "WEEK">>,
      <<{"MONTH", "Month", "month"}, "month", "MONTH">>,
      <<{"THREE_MONTH", "three_month"}, "three_month", "THREE_MONTH">>,
      <<{"YEAR", "year"}, "year", "YEAR">>,
      <<{"BDY", "bdy"}, "bdy", "BDY">>,
      <<{"ALY", "Aly", "aly"}, "aly", "ALY">>,
      <<{"QUARK", "quark"}, "quark", "QUARK">>,
      <<{"XUNLEI", "xunlei"}, "xunlei", "XUNLEI">>,
      <<{"EXACT", "exact"}, "exact", "EXACT">>,
      <<{"FOO", "Foo", "foo"}, "foo", "FOO">>,
      <<{"XYZ", "xyz"}, "xyz", "XYZ">>,
      <<{"TOKEN", "Token", "token"}, "token", "TOKEN">>,
      <<{"MAX_RESULTS", "max_results"}, "max_results", "MAX_RESULTS">>,
      <<{"INTERVAL", "interval"}, "interval", "INTERVAL">>,
      <<{"ADD_GROUP", "add_group"}, "add_group", "ADD_GROUP">>,
      <<{"ADD_ADMIN", "add_admin"}, "add_admin", "ADD_ADMIN">>,
      <<{"REMOVE", "remove"}, "remove", "REMOVE">>,
      <<{"TOK", "tok"}, "tok", "TOK">>,
      <<{"HELLO", "hello"}, "hello", "HELLO">>,
      <<{"UNKNOWN", "unknown"}, "unknown", "UNKNOWN">> }

Lower(s) ==
    IF \E c \in CaseTable : s \in c[1]
    THEN (CHOOSE c \in CaseTable : s \in c[1])[2]
    ELSE s

Upper(s) ==
    IF \E c \in CaseTable : s \in c[1]
    THEN (CHOOSE c \in CaseTable : s \in c[1])[3]
    ELSE s

\* tok.startswith(p), for the first tokens of the model
StartsWithTable ==
    { <<"/sousuo", "/sousuo">>, <<"/sousuofoo", "/sousuo">>,
      <<"/search", "/search">>, <<"/searchfoo", "/search">>,
      <<"/wangpanbangzhu", "/wangpanbangzhu">>, <<"/nethelp", "/nethelp">>,
      <<"/wangpanpeizhi", "/wangpanpeizhi">>, <<"/netconfig", "/netconfig">> }

StartsWith(msg, p) == Len(msg) > 0 /\ <<msg[1], p>> \in StartsWithTable

\* tok.replace(p, ""): every occurrence of p in tok is removed, in one pass
ReplaceTable ==
    { <<"/sousuo", "/sousuo", "">>, <<"/sousuofoo", "/sousuo", "foo">>,
      <<"/search", "/search", "">>, <<"/searchfoo", "/search", "foo">>,
      <<"/wangpanpeizhi", "/wangpanpeizhi", "">>,
      <<"/netconfig", "/netconfig", "">> }

Replace(tok, p) ==
    IF \E r \in ReplaceTable : r[1] = tok /\ r[2] = p
    THEN (CHOOSE r \in ReplaceTable : r[1] = tok /\ r[2] = p)[3]
    ELSE tok

\* message.replace(p1, "").replace(p2, "").strip().split(): the prefixes are
\* removed inside every token and the tokens left empty disappear
RECURSIVE StripSplit(_, _, _)
StripSplit(msg, p1, p2) ==
    IF msg = <<>> THEN <<>>
    ELSE LET t == Replace(Replace(Head(msg), p1), p2)
             rest == StripSplit(Tail(msg), p1, p2)
         IN  IF t = "" THEN rest ELSE <<t>> \o rest

Min(a, b) == IF a < b THEN a ELSE b

-----------------------------------------------------------------------------
(* Command Parser: _parse_search_command *)

\* the value of params while no search command has been parsed (None)
NoParams ==
    [status |-> "none", q |-> "", page |-> 0, size |-> 0,
     time |-> "", type |-> "", exact |-> FALSE]

TimeWords ==
    {"week", "month", "three_month", "year",
     "zh_yizhou", "zh_yiyue", "zh_sanyue", "zh_yinian"}

\* time_map.get(param, param)
time_map(param) ==
    CASE param = "zh_yizhou" -> "week"
      [] param = "zh_yiyue" -> "month"
      [] param = "zh_sanyue" -> "three_month"
      [] param = "zh_yinian" -> "year"
      [] OTHER -> param

TypeWords ==
    {"BDY", "ALY", "QUARK", "XUNLEI",
     "zh_baidu", "zh_ali", "zh_kuake", "zh_xunlei"}

\* type_map.get(param, param.upper())
type_map(param) ==
    CASE param = "zh_baidu" -> "BDY"
      [] param = "zh_ali" -> "ALY"
      [] param = "zh_kuake" -> "QUARK"
      [] param = "zh_xunlei" -> "XUNLEI"
      [] OTHER -> Upper(param)

ExactWords == {"exact", "zh_jingque", "zh_zhunque"}

\* the largest page the parser lets through
MaxPage == 50

\* the page a digit token gives: min(int(param), 50)
PageOf(param) == Min(IntOf(param), MaxPage)

\* one turn of the while loop: classify parts[i]; status "raise" when int()
\* raises ValueError
ParseToken(ps, tok) ==
    LET param == Lower(tok)
    IN  IF IsDigit(param)
        THEN IF IntRaises(param)
             THEN [ps EXCEPT !.status = "raise"]
             ELSE [ps EXCEPT !.page = PageOf(param)]
        ELSE IF param \in TimeWords
        THEN [ps EXCEPT !.time = time_map(param)]
        ELSE IF Upper(param) \in TypeWords
        THEN [ps EXCEPT !.type = type_map(param)]
        ELSE IF param \in ExactWords
        THEN [ps EXCEPT !.exact = TRUE]
        ELSE ps

RECURSIVE ParseLoop(_, _, _)
ParseLoop(parts, i, ps) ==
    IF ps.status = "raise" \/ i > Len(parts)
    THEN ps
    ELSE ParseLoop(parts, i + 1, ParseToken(ps, parts[i]))

\* status "none" is the None the code returns, "raise" an escaping ValueError
_parse_search_command(message, size) ==
    LET parts == StripSplit(message, "/sousuo", "/search")
    IN  IF parts = <<>>
        THEN NoParams
        ELSE ParseLoop(parts, 2,
                 [status |-> "ok", q |-> parts[1], page |-> 1, size |-> size,
                  time |-> "", type |-> "", exact |-> FALSE])

-----------------------------------------------------------------------------
(* Search Client and Result Formatter *)

\* What _search_api can return.  kind "none": None (non-200, timeout or
\* transport error); "empty": the JSON object {}; "list": a non-empty JSON
\* array; "dict": a JSON object with a success flag, n items under data and
\* a total (total < 0: the key is absent).
Response(kind, success, n, total) ==
    [kind |-> kind, success |-> success, n |-> n, total |-> total]

\* the answer standing for "the Search Client was not asked"
NoData == Response("none", FALSE, 0, 0 - 1)

\* the value of result while _handle_search has returned nothing
NoResult == [kind |-> "nothing", shown |-> 0, total |-> 0, hint |-> <<>>]

\* a message without a result listing
Text(kind) == [kind |-> kind, shown |-> 0, total |-> 0, hint |-> <<>>]

\* the next-page command: the tokens of search_cmd
NextPageCmd(ps) ==
    <<"/sousuo", ps.q, IntToStr(ps.page + 1)>>
    \o (IF ps.time # "" THEN <<ps.time>> ELSE <<>>)
    \o (IF ps.type # "" THEN <<ps.type>> ELSE <<>>)
    \o (IF ps.exact THEN <<"exact">> ELSE <<>>)

\* whether the hint is appended
HasNextPage(total, ps) == total > ps.page * ps.size

\* kind "raise": data.get fails on a response that is no JSON object
_format_results(data, ps, maxres) ==
    IF data.kind \in {"none", "empty"} THEN Text("not_found")
    ELSE IF data.kind = "list" THEN Text("raise")
    ELSE IF ~data.success THEN Text("request_failed")
    ELSE LET total == IF data.total < 0 THEN data.n ELSE data.total
         IN  IF data.n = 0 THEN Text("no_results")
             ELSE [kind |-> "results",
                   shown |-> Min(data.n, maxres),
                   total |-> total,
                   hint |-> IF HasNextPage(total, ps)
                            THEN NextPageCmd(ps) ELSE <<>>]

\* _handle_search(message) with data the answer of the Search Client, should
\* it be asked.  kind "raised": the exception of the parser escapes.
_handle_search(message, data, maxres) ==
    LET ps == _parse_search_command(message, maxres)
    IN  IF ps.status = "raise"
        THEN [params |-> ps, called |-> FALSE, result |-> Text("raised")]
        ELSE IF ps.status = "none"
        THEN [params |-> ps, called |-> FALSE, result |-> Text("format_error")]
        ELSE [params |-> ps, called |-> TRUE,
              result |->
                  IF data.kind \in {"none", "empty"} THEN Text("search_failed")
                  ELSE LET fr == _format_results(data, ps, maxres)
                       IN  IF fr.kind = "raise" THEN Text("search_error")
                           ELSE fr]

-----------------------------------------------------------------------------
(* Events of the host *)

\* An identifier as the host hands it over: None, a string or an integer
\* (v is its decimal form).  kind "absent": the event has no message_obj or
\* no sender attribute at all.
StrId(v) == [kind |-> "str", v |-> v]
IntId(v) == [kind |-> "int", v |-> v]
NoneId == [kind |-> "none", v |-> ""]
AbsentId == [kind |-> "absent", v |-> ""]

\* bool(x) of an identifier
Truthy(id) ==
    /\ id.kind \in {"str", "int"}
    /\ id.v # ""
    /\ ~(id.kind = "int" /\ id.v = "0")

\* str(x) of an identifier
Str(id) == IF id.kind \in {"none", "absent"} THEN "None" ELSE id.v

Range(seq) == { seq[i] : i \in DOMAIN seq }

UserIds == { AbsentId, IntId("1002") }

GroupIds == { NoneId, StrId("2001"), IntId("2001"), StrId("2002") }

Event(msg, user, group) == [msg |-> msg, user |-> user, group |-> group]

-----------------------------------------------------------------------------
(* What run() returns *)

\* the figures the config listing shows
NoDetail ==
    [token_set |-> FALSE, max_results |-> 0, request_interval |-> 0,
     ngroups |-> 0, nadmins |-> 0]

\* return False, None
Unhandled == [handled |-> FALSE, ok |-> FALSE, text |-> "none", detail |-> NoDetail]

\* return True, (ok, text, "netdisk_search")
Reply(ok, text) == [handled |-> TRUE, ok |-> ok, text |-> text, detail |-> NoDetail]

-----------------------------------------------------------------------------
(* Config Store: _load_config, _save_config, __init__ *)

Config(tok, maxres, interval, groups, admins) ==
    [token |-> tok, max_results |-> maxres, request_interval |-> interval,
     enabled_groups |-> groups, admin_users |-> admins]

DefaultMaxResults == 10
DefaultInterval == 3

\* the default written on first run
default_config == Config("", DefaultMaxResults, DefaultInterval, <<>>, <<>>)

\* what config.json holds when it exists at start-up
LoadedConfigs ==
    { Config(tok, DefaultMaxResults, DefaultInterval, groups, admins) :
        tok \in {"", "tok"},
        groups \in {<<>>},
        admins \in {<<>>, <<"1002">>} }

\* config.get(...) returns the list objects of the dict itself, so
\* self.enabled_groups and self.admin_users are config's own lists
enabled_groups == config.enabled_groups
admin_users == config.admin_users

\* json.dump(config) into config.json
_save_config(c) == saved' = c

\* the file is read when it exists and the default is written when not
_load_config(c) ==
    /\ c \in LoadedConfigs \cup {default_config}
    /\ config = c
    /\ saved = c

\* no event has been handled yet
NoEvent == Event(<<>>, AbsentId, NoneId)

\* __init__, for the config c found at start-up
Construct(c) ==
    /\ _load_config(c)
    /\ token = config.token
    /\ max_results = config.max_results
    /\ request_interval = config.request_interval
    /\ user_last_request = <<>>
    /\ search_count = 0
    /\ now = 0
    /\ reply = Unhandled
    /\ called = FALSE
    /\ ev = NoEvent
    /\ params = NoParams
    /\ result = NoResult

Init ==
    /\ \E c \in LoadedConfigs \cup {default_config} : Construct(c)
    /\ cmd = <<>>

-----------------------------------------------------------------------------
(* Permission Guard and Rate Limiter *)

\* _is_admin that takes everybody for an admin while there is none
_is_admin_bootstrap(e) ==
    LET user_id == IF e.user.kind = "absent" THEN NoneId ELSE e.user
    IN  \/ admin_users = <<>>
        \/ Truthy(user_id) /\ Str(user_id) \in Range(admin_users)

_is_admin(e) ==
    LET user_id == IF e.user.kind = "absent" THEN NoneId ELSE e.user
    IN  IF Truthy(user_id) THEN Str(user_id) \in Range(admin_users) ELSE FALSE

\* _check_permission without the admin bypass
_check_permission_no_admin(e) ==
    IF enabled_groups = <<>> THEN TRUE
    ELSE LET group_id == e.group
         IN  Truthy(group_id) /\ Str(group_id) \in Range(enabled_groups)

_check_permission(e) ==
    IF enabled_groups = <<>> THEN TRUE
    ELSE IF _is_admin(e) THEN TRUE
    ELSE LET group_id == e.group
         IN  Truthy(group_id) /\ Str(group_id) \in Range(enabled_groups)

\* the key of the rate-limit map: the raw identifier, or the shared "unknown"
RateKey(e) == IF e.user.kind = "absent" THEN StrId("unknown") ELSE e.user

\* TooSoon with the comparison time_diff <= self.request_interval
TooSoon_inclusive(key, t) ==
    /\ key \in DOMAIN user_last_request
    /\ t - user_last_request[key] <= request_interval

\* time_diff < self.request_interval for a user with a stored timestamp
TooSoon(key, t) ==
    /\ key \in DOMAIN user_last_request
    /\ t - user_last_request[key] < request_interval

\* the map after _check_rate_limit at time t
Stamp(key, t, denied) ==
    IF denied THEN user_last_request
    ELSE [k \in DOMAIN user_last_request \cup {key} |->
             IF k = key THEN t ELSE user_last_request[k]]

\* TRUE when the request passes; the map is updated on the way
_check_rate_limit(e, t, pass) ==
    /\ pass = ~TooSoon(RateKey(e), t)
    /\ user_last_request' = Stamp(RateKey(e), t, TooSoon(RateKey(e), t))

-----------------------------------------------------------------------------
(* Config handler: _handle_config *)

\* the ranges the handler accepts
MaxResultsLimit == 50
IntervalLimit == 60

\* max_results_ok with the lower limit 0
max_results_ok_from_zero(n) == 0 <= n /\ n <= MaxResultsLimit

max_results_ok(n) == 1 <= n /\ n <= MaxResultsLimit

interval_ok(n) == 1 <= n /\ n <= IntervalLimit

\* the list after the handler's appends: one through self.config[...] and one
\* through the attribute, which is the same list object
AppendBoth(list, value) == Append(Append(list, value), value)

\* the handler stores c in self.config and writes it to config.json
Store(c) ==
    /\ config' = c
    /\ _save_config(c)

NoStore == UNCHANGED <<config, saved>>

_handle_config(message) ==
    \E parts \in { StripSplit(message, "/wangpanpeizhi", "/netconfig") } :
    LET key == Lower(parts[1])
        value == parts[2]
    IN  IF parts = <<>>
        THEN /\ reply' = [handled |-> TRUE, ok |-> TRUE, text |-> "show_config",
                          detail |-> [token_set |-> token # "",
                                      max_results |-> max_results,
                                      request_interval |-> request_interval,
                                      ngroups |-> Len(enabled_groups),
                                      nadmins |-> Len(admin_users)]]
             /\ NoStore
             /\ UNCHANGED <<token, max_results, request_interval>>
        ELSE IF Len(parts) < 2
        THEN /\ reply' = Reply(FALSE, "config_format_error")
             /\ NoStore
             /\ UNCHANGED <<token, max_results, request_interval>>
        ELSE IF key = "token"
        THEN /\ Store([config EXCEPT !.token = value])
             /\ token' = value
             /\ reply' = Reply(TRUE, "token_set")
             /\ UNCHANGED <<max_results, request_interval>>
        ELSE IF key = "max_results"
        THEN IF IntRaises(value)
             THEN /\ reply' = Reply(FALSE, "not_a_number")
                  /\ NoStore
                  /\ UNCHANGED <<token, max_results, request_interval>>
             ELSE IF max_results_ok(IntOf(value))
             THEN /\ Store([config EXCEPT !.max_results = IntOf(value)])
                  /\ max_results' = IntOf(value)
                  /\ reply' = Reply(TRUE, "max_results_set")
                  /\ UNCHANGED <<token, request_interval>>
             ELSE /\ reply' = Reply(FALSE, "max_results_range")
                  /\ NoStore
                  /\ UNCHANGED <<token, max_results, request_interval>>
        ELSE IF key = "interval"
        THEN IF IntRaises(value)
             THEN /\ reply' = Reply(FALSE, "not_a_number")
                  /\ NoStore
                  /\ UNCHANGED <<token, max_results, request_interval>>
             ELSE IF interval_ok(IntOf(value))
             THEN /\ Store([config EXCEPT !.request_interval = IntOf(value)])
                  /\ request_interval' = IntOf(value)
                  /\ reply' = Reply(TRUE, "interval_set")
                  /\ UNCHANGED <<token, max_results>>
             ELSE /\ reply' = Reply(FALSE, "interval_range")
                  /\ NoStore
                  /\ UNCHANGED <<token, max_results, request_interval>>
        ELSE IF key = "add_group"
        THEN IF value \notin Range(config.enabled_groups)
             THEN /\ Store([config EXCEPT
                               !.enabled_groups = AppendBoth(@, value)])
                  /\ reply' = Reply(TRUE, "group_added")
                  /\ UNCHANGED <<token, max_results, request_interval>>
             ELSE /\ reply' = Reply(FALSE, "group_exists")
                  /\ NoStore
                  /\ UNCHANGED <<token, max_results, request_interval>>
        ELSE IF key = "add_admin"
        THEN IF value \notin Range(config.admin_users)
             THEN /\ Store([config EXCEPT
                               !.admin_users = AppendBoth(@, value)])
                  /\ reply' = Reply(TRUE, "admin_added")
                  /\ UNCHANGED <<token, max_results, request_interval>>
             ELSE /\ reply' = Reply(FALSE, "admin_exists")
                  /\ NoStore
                  /\ UNCHANGED <<token, max_results, request_interval>>
        ELSE /\ reply' = Reply(FALSE, "unknown_key")
             /\ NoStore
             /\ UNCHANGED <<token, max_results, request_interval>>

-----------------------------------------------------------------------------
(* Command Router: run *)

IsSearch(msg) == StartsWith(msg, "/sousuo") \/ StartsWith(msg, "/search")
IsHelp(msg) == StartsWith(msg, "/wangpanbangzhu") \/ StartsWith(msg, "/nethelp")
IsConfig(msg) == StartsWith(msg, "/wangpanpeizhi") \/ StartsWith(msg, "/netconfig")

\* nothing was parsed and nothing was sent in this run
NoSearch ==
    /\ called' = FALSE
    /\ cmd' = <<>>
    /\ params' = NoParams
    /\ result' = NoResult

ConfigVars == <<config, token, max_results, request_interval, saved>>

\* run without the token check
NoToken_skipped == FALSE

\* not self.token
NoToken == token = ""

\* the search branch: asyncio.run(self._handle_search(message)); a string
\* comes back from every path that does not raise, and any string counts.
\* answers: what the Search Client may answer when it is asked.
Search(e, answers) ==
    \E data \in answers :
      \E hs \in { _handle_search(e.msg, data, max_results) } :
            /\ hs.called \/ data = NoData
            /\ cmd' = e.msg
            /\ params' = hs.params
            /\ called' = hs.called
            /\ result' = hs.result
            /\ IF hs.result.kind = "raised"
               THEN /\ reply' = Reply(FALSE, "plugin_error")
                    /\ UNCHANGED search_count
               ELSE /\ search_count < MaxCount
                    /\ search_count' = search_count + 1
                    /\ reply' = Reply(TRUE, hs.result.kind)

\* run(ame) for the event e, handled at the clock reading now
run(e, answers) ==
    /\ UNCHANGED now
    /\ ev' = e
    /\ IF ~(IsSearch(e.msg) \/ IsHelp(e.msg) \/ IsConfig(e.msg))
       THEN /\ reply' = Unhandled
            /\ NoSearch
            /\ UNCHANGED <<ConfigVars, user_last_request, search_count>>
       ELSE IF IsConfig(e.msg)
       THEN /\ IF _is_admin(e)
               THEN _handle_config(e.msg)
               ELSE /\ reply' = Reply(FALSE, "admin_only")
                    /\ UNCHANGED ConfigVars
            /\ NoSearch
            /\ UNCHANGED <<user_last_request, search_count>>
       ELSE IF NoToken
       THEN /\ reply' = Reply(FALSE, "need_token")
            /\ NoSearch
            /\ UNCHANGED <<ConfigVars, user_last_request, search_count>>
       ELSE IF ~_check_permission(e)
       THEN /\ reply' = Reply(FALSE, "no_permission")
            /\ NoSearch
            /\ UNCHANGED <<ConfigVars, user_last_request, search_count>>
       ELSE \E pass \in BOOLEAN :
            /\ _check_rate_limit(e, now, pass)
            /\ UNCHANGED ConfigVars
            /\ IF ~pass
               THEN /\ reply' = Reply(FALSE, "rate_limited")
                    /\ NoSearch
                    /\ UNCHANGED search_count
               ELSE IF IsHelp(e.msg)
               THEN /\ reply' = Reply(TRUE, "help")
                    /\ NoSearch
                    /\ UNCHANGED search_count
               ELSE Search(e, answers)

-----------------------------------------------------------------------------
(* The events the host delivers *)

Admin == IntId("1002")

OtherMsgs == { <<>>, <<"hello">> }

HelpMsgs == { <<"/nethelp">>, <<"/wangpanbangzhu">> }

SearchMsgs ==
    { <<"/sousuo">>, <<"/search", "foo">>, <<"/sousuo", "foo", "sup2">> }

\* the config commands of the router runs
ConfigMsgs ==
    { <<"/netconfig">>, <<"/netconfig", "Token", "tok">>,
      <<"/wangpanpeizhi", "add_group", "2001">>,
      <<"/netconfig", "interval", "1">> }

\* the config commands of the config runs
AllConfigMsgs ==
    { <<"/netconfig">>, <<"/wangpanpeizhi", "token">>,
      <<"/netconfig", "Token", "tok">>, <<"/netconfig", "remove", "2001">>,
      <<"/wangpanpeizhi", "add_group", "2001">> }
    \cup { <<"/netconfig", "add_admin", v>> : v \in {"1002", "1003"} }
    \cup { <<"/netconfig", "max_results", v>> :
             v \in {"0", "1", "50", "51", "-1", "xyz"} }
    \cup { <<"/netconfig", "interval", v>> : v \in {"0", "60", "61", "xyz"} }

\* the answers of the Search Client the router is run against
RouterResponses ==
    { Response("none", FALSE, 0, 0 - 1), Response("list", FALSE, 1, 0 - 1),
      Response("dict", TRUE, 15, 40) }

OtherEvents == { Event(m, AbsentId, NoneId) : m \in OtherMsgs }

ConfigEvents ==
    { Event(m, Admin, NoneId) : m \in ConfigMsgs }
    \cup { Event(<<"/netconfig", "Token", "tok">>, AbsentId, NoneId) }

HelpEvents == { Event(m, u, g) : m \in HelpMsgs, u \in UserIds, g \in GroupIds }

SearchEvents == { Event(m, u, g) : m \in SearchMsgs, u \in UserIds, g \in GroupIds }

Events == OtherEvents \cup ConfigEvents \cup HelpEvents \cup SearchEvents

\* the host calls run() once for each event of S it delivers
Deliver(S) == \E e \in S : run(e, RouterResponses)

\* time passes between two events; the clock does not run backwards
Tick ==
    /\ now < MaxTime
    /\ now' = now + 1
    /\ UNCHANGED <<ConfigVars, user_last_request, search_count, reply,
                   called, ev, cmd, params, result>>

Ignore == Deliver(OtherEvents)

ConfigCommand == Deliver(ConfigEvents)

HelpCommand == Deliver(HelpEvents)

SearchCommand == Deliver(SearchEvents)

Next == Tick \/ Ignore \/ ConfigCommand \/ HelpCommand \/ SearchCommand

Spec == Init /\ [][Next]_vars

\* run(e) has just returned (the clock stood still)
Handled == now' = now /\ ev' # NoEvent

-----------------------------------------------------------------------------
(* The config runs: every config command, and requests that show its effect *)

FullConfigEvents ==
    { Event(m, Admin, NoneId) : m \in AllConfigMsgs }
    \cup { Event(m, AbsentId, NoneId) :
             m \in { <<"/netconfig">>, <<"/netconfig", "Token", "tok">> } }

RequestEvents ==
    { Event(<<"/search", "foo">>, u, NoneId) : u \in UserIds }
    \cup { Event(<<"/nethelp">>, AbsentId, NoneId) }

Configure == Deliver(FullConfigEvents)

Request == Deliver(RequestEvents)

ConfigNext == Configure \/ Request

ConfigSpec == Init /\ [][ConfigNext]_vars

-----------------------------------------------------------------------------
(* The parser runs: _handle_search applied to one search command *)

\* the tokens that may follow the query
TokenAlphabet ==
    { "0", "50", "51", "sup2",
      "week", "zh_yizhou", "Month",
      "zh_baidu", "ALY",
      "zh_zhunque",
      "xyz" }

RECURSIVE TokenSeqs(_)
TokenSeqs(n) ==
    IF n = 0 THEN { <<>> }
    ELSE LET shorter == TokenSeqs(n - 1)
         IN  shorter \cup { Append(ts, tok) : ts \in shorter, tok \in TokenAlphabet }

\* the command up to and including the query
QueryHeads ==
    { <<"/sousuo", "foo">>, <<"/searchfoo">>, <<"/search", "week">> }

ParseMsgs ==
    { <<"/sousuo">> }
    \cup { head \o ts : head \in QueryHeads, ts \in TokenSeqs(MaxTokens) }

\* the answers of the Search Client the parser runs are given
ParseResponses ==
    { Response("none", FALSE, 0, 0 - 1), Response("dict", TRUE, 15, 40),
      Response("dict", TRUE, 15, 5000) }

ParseInit ==
    /\ Construct(default_config)
    /\ cmd \in ParseMsgs

HandleSearch ==
    /\ result = NoResult
    /\ \E data \in ParseResponses :
         \E hs \in { _handle_search(cmd, data, max_results) } :
            /\ hs.called \/ data = NoData
            /\ params' = hs.params
            /\ called' = hs.called
            /\ result' = hs.result
    /\ UNCHANGED <<ConfigVars, user_last_request, search_count, now, reply,
                   ev, cmd>>

ParseSpec == ParseInit /\ [][HandleSearch]_vars

-----------------------------------------------------------------------------
(* Claims about the router, under Spec *)

\* the sender of e is in admin_users
SenderIsAdmin(e) ==
    e.user.kind \in {"str", "int"} /\ e.user.v \in Range(admin_users)

\* the group identifier of e is in enabled_groups
GroupIsListed(e) ==
    e.group.kind \in {"str", "int"} /\ e.group.v \in Range(enabled_groups)

\* e is a help or a search command
IsRequest(e) == IsHelp(e.msg) \/ IsSearch(e.msg)

\* the last event got as far as _check_rate_limit
RateChecked ==
    /\ Handled
    /\ IsRequest(ev')
    /\ reply'.text \notin {"need_token", "no_permission"}

\* C1: a request of user u at time t is denied exactly when u has a stored
\* timestamp t0 with t - t0 < request_interval; a denied request leaves
\* user_last_request unchanged and an allowed one sets user_last_request[u]
\* to t and nothing else, so that an allowed request is at least
\* request_interval after the allowed request before it.
C1_RateLimiter ==
    [][RateChecked =>
           LET u == RateKey(ev')
               denied == reply'.text = "rate_limited"
               stored == u \in DOMAIN user_last_request
           IN  /\ denied <=> (stored /\ now - user_last_request[u] < request_interval)
               /\ denied => user_last_request' = user_last_request
               /\ ~denied =>
                    /\ DOMAIN user_last_request' = DOMAIN user_last_request \cup {u}
                    /\ user_last_request'[u] = now
                    /\ \A k \in DOMAIN user_last_request :
                         k # u => user_last_request'[k] = user_last_request[k]
                    /\ stored => now - user_last_request[u] >= request_interval
      ]_vars

\* a request was denied: its user has a stamp less than an interval old,
\* of an earlier moment
C1_Witness ==
    /\ reply.text = "rate_limited"
    /\ RateKey(ev) \in DOMAIN user_last_request
    /\ user_last_request[RateKey(ev)] < now
    /\ now - user_last_request[RateKey(ev)] < request_interval

\* C2: with enabled_groups empty every event passes the permission check;
\* otherwise an event passes if and only if its sender is in admin_users or
\* its group identifier is in enabled_groups.
C2_PermissionGuard ==
    [][(Handled /\ IsRequest(ev') /\ token # "") =>
           ( reply'.text # "no_permission"
             <=> \/ enabled_groups = <<>>
                 \/ SenderIsAdmin(ev')
                 \/ GroupIsListed(ev') )
      ]_vars

\* a non-admin without a group identifier was turned away
C2_Witness ==
    /\ reply.text = "no_permission"
    /\ ev.group = NoneId
    /\ enabled_groups # <<>>
    /\ ~SenderIsAdmin(ev)

\* C5: search_count goes up by one for a search that was parsed, answered
\* and formatted, and stays as it is for every other event.
C5_SearchCounter ==
    [][Handled =>
           LET served == /\ IsSearch(ev'.msg)
                         /\ result'.kind \in {"results", "no_results", "request_failed"}
           IN  /\ served => search_count' = search_count + 1
               /\ ~served => search_count' = search_count
      ]_vars

\* C8: a config command meets the admin check only; any other command meets
\* the token check, then the permission check, then the rate limiter, so that
\* a command turned away by the first two leaves user_last_request alone,
\* and a help command that is let through leaves a timestamp.
C8_DispatchOrder ==
    [][Handled =>
           LET permitted == \/ enabled_groups = <<>>
                            \/ SenderIsAdmin(ev')
                            \/ GroupIsListed(ev')
           IN  /\ IsConfig(ev'.msg) =>
                    /\ reply'.text = "admin_only" <=> ~SenderIsAdmin(ev')
                    /\ reply'.text \notin {"need_token", "no_permission", "rate_limited"}
                    /\ user_last_request' = user_last_request
               /\ IsRequest(ev') =>
                    /\ reply'.text = "need_token" <=> token = ""
                    /\ reply'.text = "no_permission" <=> (token # "" /\ ~permitted)
                    /\ reply'.text \in {"need_token", "no_permission"} =>
                         user_last_request' = user_last_request
                    /\ reply'.text = "help" =>
                         /\ IsHelp(ev'.msg)
                         /\ RateKey(ev') \in DOMAIN user_last_request'
                         /\ user_last_request'[RateKey(ev')] = now
      ]_vars

\* a user whom the rate limiter would have denied was turned away by the
\* permission check, which comes first
C8_Witness ==
    /\ reply.text = "no_permission"
    /\ RateKey(ev) \in DOMAIN user_last_request
    /\ now - user_last_request[RateKey(ev)] < request_interval

-----------------------------------------------------------------------------
(* Claims about the config handler, under ConfigSpec *)

\* the last event was the config command <key> <value> of an admin
AdminSet(key) ==
    /\ Handled
    /\ IsConfig(ev'.msg)
    /\ SenderIsAdmin(ev')
    /\ Len(ev'.msg) = 3
    /\ Lower(ev'.msg[2]) = key
    /\ ~IntRaises(ev'.msg[3])

\* C3: max_results <n> with n outside 1..50 and interval <n> with n outside
\* 1..60 are rejected and change nothing; an n in range is stored, written to
\* config.json and is the size of the searches parsed from then on; the two
\* settings stay in their ranges.
C3_ConfigRange ==
    [][Handled =>
           /\ AdminSet("max_results") =>
                LET n == IntOf(ev'.msg[3])
                IN  IF 1 <= n /\ n <= 50
                    THEN /\ reply'.ok
                         /\ max_results' = n
                         /\ config'.max_results = n
                         /\ saved' = config'
                    ELSE /\ ~reply'.ok
                         /\ UNCHANGED ConfigVars
           /\ AdminSet("interval") =>
                LET n == IntOf(ev'.msg[3])
                IN  IF 1 <= n /\ n <= 60
                    THEN /\ reply'.ok
                         /\ request_interval' = n
                         /\ config'.request_interval = n
                         /\ saved' = config'
                    ELSE /\ ~reply'.ok
                         /\ UNCHANGED ConfigVars
           /\ params'.status = "ok" => params'.size = max_results
           /\ max_results' \in 1..50 /\ saved'.max_results \in 1..50
           /\ request_interval' \in 1..60 /\ saved'.request_interval \in 1..60
      ]_vars

\* a search was parsed after max_results had been set to 50
C3_Witness ==
    /\ params.status = "ok"
    /\ params.size = 50
    /\ saved.max_results = 50

NoDuplicates(list) ==
    \A i, j \in DOMAIN list : list[i] = list[j] => i = j

\* C9: enabled_groups and admin_users hold every identifier at most once; a
\* successful add_group or add_admin makes the list one entry longer, and a
\* repeated identifier is rejected without changing the list.
C9_AllowListsAreSets ==
    [][Handled =>
           /\ NoDuplicates(enabled_groups') /\ NoDuplicates(admin_users')
           /\ reply'.text = "group_added" =>
                Len(enabled_groups') = Len(enabled_groups) + 1
           /\ reply'.text = "admin_added" =>
                Len(admin_users') = Len(admin_users) + 1
           /\ reply'.text \in {"group_exists", "admin_exists"} =>
                UNCHANGED ConfigVars
      ]_vars

\* C10: the config changes only in a config command whose sender is already
\* in admin_users; with admin_users empty it never changes, and with the
\* token empty as well every search and help command gets the
\* configuration-needed message and no request is sent.
C10_AdminOnlyConfig ==
    [][Handled =>
           /\ ConfigVars' # ConfigVars =>
                IsConfig(ev'.msg) /\ SenderIsAdmin(ev')
           /\ admin_users = <<>> => UNCHANGED ConfigVars
           /\ (admin_users = <<>> /\ token = "" /\ IsRequest(ev')) =>
                /\ reply'.text = "need_token"
                /\ ~called'
                /\ UNCHANGED <<user_last_request, search_count>>
      ]_vars

\* a config command reached the default config and was turned away
C10_Witness ==
    /\ config = default_config
    /\ saved = default_config
    /\ token = ""
    /\ ev.msg = <<"/netconfig", "Token", "tok">>
    /\ reply.text = "admin_only"

-----------------------------------------------------------------------------
(* Claims about the parser and the formatter, under ParseSpec *)

\* C4: every search command that parses has 1 <= page <= 50.
C4_PageClamp ==
    params.status = "ok" => (1 <= params.page /\ params.page <= MaxPage)

\* C6: the hint is appended exactly when total > page * size, and parsing the
\* hint gives the same query, time filter, resource type and exact flag as
\* the originating params, with the page one higher.
C6_NextPageHint ==
    result.kind = "results" =>
        LET hinted == result.hint # <<>>
        IN  /\ hinted <=> (result.total > params.page * params.size)
            /\ hinted =>
                 _parse_search_command(result.hint, params.size)
                     = [params EXCEPT !.page = params.page + 1]


\* the spellings of each category with their canonical tags
TimeTags ==
    { <<"week", "week">>, <<"zh_yizhou", "week">>,
      <<"month", "month">>, <<"zh_yiyue", "month">>,
      <<"three_month", "three_month">>, <<"zh_sanyue", "three_month">>,
      <<"year", "year">>, <<"zh_yinian", "year">> }

TypeTags ==
    { <<"bdy", "BDY">>, <<"zh_baidu", "BDY">>,
      <<"aly", "ALY">>, <<"zh_ali", "ALY">>,
      <<"quark", "QUARK">>, <<"zh_kuake", "QUARK">>,
      <<"xunlei", "XUNLEI">>, <<"zh_xunlei", "XUNLEI">> }

ExactSpellings == { "exact", "zh_jingque", "zh_zhunque" }

TagIn(tags, tok) == (CHOOSE p \in tags : p[1] = Lower(tok))[2]

\* the category of a token, whatever its case; a page token is a number
CategoryOf(tok) ==
    IF IsDigit(tok) /\ ~IntRaises(tok) THEN "page"
    ELSE IF \E p \in TimeTags : p[1] = Lower(tok) THEN "time"
    ELSE IF \E p \in TypeTags : p[1] = Lower(tok) THEN "type"
    ELSE IF Lower(tok) \in ExactSpellings THEN "exact"
    ELSE "other"

\* the position of the last token of a category, 0 when there is none
LastOf(ts, cat) ==
    LET at == { i \in DOMAIN ts : CategoryOf(ts[i]) = cat }
    IN  IF at = {} THEN 0 ELSE CHOOSE i \in at : \A j \in at : j <= i

\* what the last token of each category alone decides
LastWins(q, ts, size) ==
    LET p == LastOf(ts, "page")
        t == LastOf(ts, "time")
        y == LastOf(ts, "type")
    IN  [status |-> "ok", q |-> q, size |-> size,
         page |-> IF p = 0 THEN 1 ELSE Min(IntOf(ts[p]), MaxPage),
         time |-> IF t = 0 THEN "" ELSE TagIn(TimeTags, ts[t]),
         type |-> IF y = 0 THEN "" ELSE TagIn(TypeTags, ts[y]),
         exact |-> LastOf(ts, "exact") # 0]

Swap(ts, i) ==
    [k \in DOMAIN ts |-> IF k = i THEN ts[i + 1] ELSE IF k = i + 1 THEN ts[i] ELSE ts[k]]

Insert(ts, i, tok) ==
    [k \in 1..(Len(ts) + 1) |-> IF k < i THEN ts[k] ELSE IF k = i THEN tok ELSE ts[k - 1]]

\* what the claim says of the command cmd, parsed into ps
ClassifiedByLastToken(ps) ==
    LET parts == StripSplit(cmd, "/sousuo", "/search")
        ts == Tail(parts)
        head == SubSeq(cmd, 1, Len(cmd) - Len(ts))
    IN  /\ ps = LastWins(parts[1], ts, max_results)
        /\ \A i \in 1..(Len(ts) - 1) :
             CategoryOf(ts[i]) # CategoryOf(ts[i + 1]) =>
               _parse_search_command(head \o Swap(ts, i), max_results) = ps
        /\ \A i \in 1..(Len(ts) + 1) :
             \A tok \in { t \in TokenAlphabet : CategoryOf(t) = "other" } :
               _parse_search_command(head \o Insert(ts, i, tok), max_results) = ps

\* C7: the first token is the query; for each category the parsed value is
\* the canonical tag of the last token of that category; swapping two
\* neighbouring tokens of different categories, or inserting an unrecognized
\* token after the query, leaves the result as it is.
C7_TokenClassification ==
    (result # NoResult /\ StripSplit(cmd, "/sousuo", "/search") # <<>>) =>
        ClassifiedByLastToken(params)

\* C7 for the commands the parser does not raise on: there the claim holds
C7_WhenNoTokenRaises ==
    params.status = "ok" =>
        LET parts == StripSplit(cmd, "/sousuo", "/search")
            ts == Tail(parts)
            head == SubSeq(cmd, 1, Len(cmd) - Len(ts))
        IN  /\ params = LastWins(parts[1], ts, max_results)
            /\ \A i \in 1..(Len(ts) - 1) :
                 CategoryOf(ts[i]) # CategoryOf(ts[i + 1]) =>
                   _parse_search_command(head \o Swap(ts, i), max_results) = params
            /\ \A i \in 1..(Len(ts) + 1) :
                 _parse_search_command(head \o Insert(ts, i, "xyz"), max_results)
                     = params

====
